---- MODULE Spec2Model ----
(***************************************************************************)
(* Content-analysis backend (backend/src/index.ts): one POST /api/analyze  *)
(* request, from the read of its body to the response.                     *)
(* The App component of the frontend (frontend/src/App.tsx) that submits   *)
(* the request is modelled at the end of the module.                       *)
(*                                                                         *)
(* Strings are sequences of tokens (a token is a TLA+ string that the code *)
(* never splits): the empty string is <<>>, concatenation is \o, and       *)
(* s.includes(m) for a marker m is "m is a token of s".                    *)
(***************************************************************************)
EXTENDS Integers, Sequences, FiniteSets, TLC

VARIABLES
    body,        \* the request body as sent by the client
    env,         \* c.env: provider name -> credential string ("" when unset)
    pc,          \* position of the handler: "recv", "crawl", "join", "sent" ("idle": no request)
    page,        \* what the fetch of the page ended in (history)
    contentData, \* the content record of lines 129-136
    results,     \* the result mapping of line 180 (a function on the keys written)
    promises,    \* provider name -> state of its runAnalysis promise
    taskRes,     \* provider name -> value its adapter promise resolved with
    reply,       \* provider name -> the reply its outbound call ended in (history)
    netCalls,    \* outbound network calls issued so far (history)
    writes,      \* provider name -> number of writes to the result mapping (history)
    response,    \* the response sent (status 0 while none is sent)
    taskArgs,    \* provider name -> the title and content its adapter was called with
    app,         \* the state of the App component of the frontend (App.tsx, 19-23)
    appPc,       \* position of handleSubmit: "idle", or "waiting" for the fetch
    answered     \* HTTP status of the last response the frontend received (history)

vars == <<body, env, pc, page, contentData, results, promises, taskRes, reply,
          netCalls, writes, response, taskArgs, app, appPc, answered>>

\* the variables of the frontend
feVars == <<app, appPc, answered>>

----------------------------------------------------------------------------
(* Strings *)

WhiteSpace == {" ", "\n"}

RECURSIVE TrimStart(_)
TrimStart(s) ==
    IF s # <<>> /\ Head(s) \in WhiteSpace THEN TrimStart(Tail(s)) ELSE s

RECURSIVE TrimEnd(_)
TrimEnd(s) ==
    IF s # <<>> /\ s[Len(s)] \in WhiteSpace
    THEN TrimEnd(SubSeq(s, 1, Len(s) - 1))
    ELSE s

\* String.prototype.trim
Trim(s) == TrimEnd(TrimStart(s))

\* String.prototype.includes for a marker that is one token
Includes(s, marker) == \E i \in 1..Len(s) : s[i] = marker

\* a string is truthy unless it is empty
TruthyStr(s) == s # <<>>

----------------------------------------------------------------------------
(* JavaScript values, as far as the handler distinguishes them: the kind,  *)
(* for an object the set of its fields that carry a value and the values   *)
(* of the fields keywords, summary and error, for a primitive its literal. *)
(* A field set to undefined is not in the set: no code reads such a field, *)
(* and the JSON text of the response omits it.                             *)

JsValue(kind, has, keywords, summary, error, lit) ==
    [kind |-> kind, has |-> has, keywords |-> keywords, summary |-> summary,
     error |-> error, lit |-> lit]

JsNull == JsValue("null", {}, <<>>, <<>>, <<>>, "null")
JsPrim(kind, lit) == JsValue(kind, {}, <<>>, <<>>, <<>>, lit)
JsArray(lit) == JsValue("array", {}, <<>>, <<>>, <<>>, lit)
JsObject(has, keywords, summary, error) ==
    JsValue("object", has, keywords, summary, error, "")

\* ToBoolean: null, 0, false and "" are falsy; objects and arrays are truthy
Truthy(v) ==
    /\ v.kind # "null"
    /\ ~(v.kind = "number" /\ v.lit = "0")
    /\ ~(v.kind = "boolean" /\ v.lit = "false")
    /\ ~(v.kind = "string" /\ v.lit = "\"\"")

----------------------------------------------------------------------------
(* JSON texts.  A text is a string whose tokens are white space, code-fence *)
(* markers, and atoms: an atom is either one complete JSON text or prose   *)
(* that is no JSON.  A text holds at most one atom.                        *)

\* the two code-fence markers of line 93: three backquotes followed by
\* "json", and three backquotes (a backquote cannot be written in a string
\* of this language, so each marker is named by a token)
FenceJson == "<fence>json"
Fence == "<fence>"

WellFormedA == "{\"keywords\":[\"k1\",\"k2\"],\"summary\":\"s1\"}"
WellFormedB == "{\"keywords\":[\"k3\"],\"summary\":\"s2\"}"
ObjBoth == "{\"keywords\":[\"k1\"],\"summary\":\"s1\",\"error\":\"e1\"}"
ObjOther == "{\"foo\":1}"
ArrayAtom == "[1]"
NumberAtom == "5"
StringAtom == "\"hi\""
NullAtom == "null"
ZeroAtom == "0"
Prose == "Here are the keywords: k1, k2"

JsonAtoms == {WellFormedA, WellFormedB, ObjBoth, ObjOther, ArrayAtom,
              NumberAtom, StringAtom, NullAtom, ZeroAtom}

\* the value JSON.parse yields for an atom that is a JSON text
AtomValue(a) ==
    CASE a = WellFormedA ->
            JsObject({"keywords", "summary"}, <<"k1", "k2">>, <<"s1">>, <<>>)
      [] a = WellFormedB ->
            JsObject({"keywords", "summary"}, <<"k3">>, <<"s2">>, <<>>)
      [] a = ObjBoth ->
            JsObject({"keywords", "summary", "error"}, <<"k1">>, <<"s1">>, <<"e1">>)
      [] a = ObjOther -> JsObject({"foo"}, <<>>, <<>>, <<>>)
      [] a = ArrayAtom -> JsArray(a)
      [] a = NumberAtom -> JsPrim("number", a)
      [] a = ZeroAtom -> JsPrim("number", a)
      [] a = StringAtom -> JsPrim("string", a)
      [] OTHER -> JsNull

\* JSON.parse: white space around the one JSON text is allowed, anything
\* else (a fence marker, prose, the empty string) is a SyntaxError
JSONParse(s) ==
    LET core == Trim(s)
    IN  IF Len(core) = 1 /\ core[1] \in JsonAtoms
        THEN [ok |-> TRUE, value |-> AtomValue(core[1])]
        ELSE [ok |-> FALSE, value |-> JsNull]

\* line 93: both fence markers are removed, the json one first, then trim()
CleanFences(s) ==
    Trim(SelectSeq(SelectSeq(s, LAMBDA t : t # FenceJson), LAMBDA t : t # Fence))

----------------------------------------------------------------------------
(* Provider adapters.  A reply is what the outbound call of an adapter     *)
(* ends in: a network error, or an HTTP status with a body; the body does  *)
(* not decode as JSON, is JSON null, or is an object whose choice /        *)
(* candidate list is absent, empty, or has a first element.  The first     *)
(* element carries a text ("content"), or a message / content object       *)
(* without the text field ("undefined": the text read is undefined), or    *)
(* no message / content object, or a null one, or a text field that is     *)
(* null ("nocontent").                                                     *)

Providers == {"DeepSeek", "OpenAI", "Gemini", "Qwen"}

Reply(net, status, bodyKind, list, first, text) ==
    [net |-> net, status |-> status, bodyKind |-> bodyKind, list |-> list,
     first |-> first, text |-> text]

NoReply == Reply("none", 0, "none", "absent", "none", <<>>)
NetworkError == Reply("error", 0, "none", "absent", "none", <<>>)
TextReply(status, text) == Reply("ok", status, "object", "one", "content", text)
ListReply(status, list) == Reply("ok", status, "object", list, "none", <<>>)
BodyReply(status, bodyKind) == Reply("ok", status, bodyKind, "absent", "none", <<>>)
NoContentReply(status) == Reply("ok", status, "object", "one", "nocontent", <<>>)
UndefinedContentReply(status) == Reply("ok", status, "object", "one", "undefined", <<>>)

\* the settled state of a promise
Fulfilled(v) == [settled |-> "fulfilled", value |-> v, message |-> <<>>]
Rejected(msg) == [settled |-> "rejected", value |-> JsNull, message |-> msg]
Pending == [settled |-> "pending", value |-> JsNull, message |-> <<>>]

\* { keywords: [], summary: contentStr }   (lines 58, 98)
Degraded(text) == JsObject({"keywords", "summary"}, <<>>, text, <<>>)

\* { keywords: [], summary: undefined }: JSON.parse(undefined) throws, and
\* the catch of line 56 returns the object with contentStr undefined
DegradedUndefined == JsObject({"keywords"}, <<>>, <<>>, <<>>)

\* lines 51-61 with `return null` in the catch of line 56: a text that does
\* not decode is dropped
OpenAIFromBodyDropsText(r) ==
    IF r.list = "one"
    THEN LET parsed == JSONParse(r.text)
         IN  IF parsed.ok THEN parsed.value ELSE JsNull
    ELSE JsNull

\* lines 51-61: what the adapter returns from a decoded reply body
OpenAIFromBody(r) ==
    IF r.list = "one"
    THEN IF r.first = "undefined"
         THEN DegradedUndefined
         ELSE LET parsed == JSONParse(r.text)
              IN  IF parsed.ok THEN parsed.value ELSE Degraded(r.text)
    ELSE JsNull

\* analyzeWithOpenAICompatible, lines 21-66: every throw inside the try
\* (fetch, response.json(), the read of content of a message that is null
\* or undefined) ends in the catch of line 62, which returns null; so does
\* a content that is null, as JSON.parse(null) is null
AnalyzeWithOpenAICompatible(r) ==
    IF \/ r.net = "error"
       \/ r.bodyKind # "object"
       \/ (r.list = "one" /\ r.first = "nocontent")
    THEN Fulfilled(JsNull)
    ELSE Fulfilled(OpenAIFromBody(r))

\* lines 89-101; a candidate without content fails the test of line 90, and
\* a text that is undefined or null throws at .replace of line 93: both end
\* in null
GeminiFromBody(r) ==
    IF r.list = "one" /\ r.first = "content"
    THEN LET cleanedStr == CleanFences(r.text)
             parsed == JSONParse(cleanedStr)
         IN  IF parsed.ok THEN parsed.value ELSE Degraded(cleanedStr)
    ELSE JsNull

\* analyzeWithGemini, lines 69-106
AnalyzeWithGemini(r) ==
    IF r.net = "error" \/ r.bodyKind # "object"
    THEN Fulfilled(JsNull)
    ELSE Fulfilled(GeminiFromBody(r))

\* the adapter each provider is dispatched with (lines 197-238)
Adapter(p, r) ==
    IF p = "Gemini" THEN AnalyzeWithGemini(r) ELSE AnalyzeWithOpenAICompatible(r)

\* { error: <message> }
Failure(msg) == JsObject({"error"}, <<>>, <<>>, msg)

\* runAnalysis without the else branch of line 189: nothing is written for
\* a task that resolved with a falsy value
RunAnalysisSkipsEmpty(task) ==
    [write |-> task.settled = "rejected" \/ Truthy(task.value),
     entry |-> IF task.settled = "rejected"
               THEN Failure(task.message)
               ELSE task.value,
     settled |-> "fulfilled",
     message |-> <<>>]

\* runAnalysis that throws for a falsy value instead of recording it
RunAnalysisThrows(task) ==
    IF task.settled = "fulfilled" /\ Truthy(task.value)
    THEN [write |-> TRUE, entry |-> task.value, settled |-> "fulfilled",
          message |-> <<>>]
    ELSE [write |-> FALSE, entry |-> JsNull, settled |-> "rejected",
          message |-> <<"No data returned">>]

\* runAnalysis, lines 184-195, resumed on a settled task: the entry it
\* writes under the provider's name, and the state its own promise settles in
RunAnalysis(task) ==
    [write |-> TRUE,
     entry |-> IF task.settled = "rejected"
               THEN Failure(task.message)
               ELSE IF Truthy(task.value)
                    THEN task.value
                    ELSE Failure(<<"No data returned">>),
     settled |-> "fulfilled",
     message |-> <<>>]

\* Promise.any in the place of Promise.all: fulfilled with the first
PromiseAny(states) ==
    IF "fulfilled" \in states THEN "fulfilled"
    ELSE IF states \subseteq {"rejected"} THEN "rejected"
    ELSE "pending"

\* Promise.all over the promises dispatched (line 247): rejected as soon as
\* one is rejected, fulfilled when all are fulfilled
PromiseAll(states) ==
    IF "rejected" \in states THEN "rejected"
    ELSE IF states \subseteq {"fulfilled"} THEN "fulfilled"
    ELSE "pending"

----------------------------------------------------------------------------
(* URLs.  The tokens of a URL string are schemes (a scheme name with its   *)
(* "://"), host labels and path parts.  new URL(s) follows the URL         *)
(* standard: s needs a scheme; after http and https the parser skips any   *)
(* further slashes and needs a non-empty host, which it lower-cases; after *)
(* another scheme the host may be empty and is kept as written.            *)

Schemes == {"https://", "http://"}
PathTokens == {"/", "/explore/abc123", "/s/xyz", "/?ref=", "/s?src="}

\* the tokens made of letters, dots and hyphens: host labels, and text that
\* continues a scheme name when a scheme token follows
HostTokens ==
    {"www.", "mp.", "xiaohongshu.com", "weixin.qq.com", "example.com",
     "not-a-url", "WWW.", "XIAOHONGSHU.COM"}

\* the name of a scheme token, as it reads inside a host
SchemeName(t) == IF t = "https://" THEN "https" ELSE "http"

\* String.prototype.toLowerCase on the host labels of the catalogue
Lower(t) ==
    CASE t = "WWW." -> "www."
      [] t = "XIAOHONGSHU.COM" -> "xiaohongshu.com"
      [] OTHER -> t

\* leading and trailing spaces and every newline are removed first
StripUrl(s) == Trim(SelectSeq(s, LAMBDA t : t # "\n"))

\* the position of the scheme token that ends the scheme of s: the tokens
\* before it continue the scheme name; 0 when s has no scheme
RECURSIVE SchemeAt(_)
SchemeAt(s) ==
    IF s = <<>> THEN 0
    ELSE IF Head(s) \in Schemes THEN 1
    ELSE IF Head(s) \in HostTokens /\ SchemeAt(Tail(s)) # 0
    THEN 1 + SchemeAt(Tail(s))
    ELSE 0

\* the host that a path part yields once its leading slash is skipped: the
\* text up to the next "/" or "?"
PathHost(t) ==
    CASE t = "/explore/abc123" -> <<"explore">>
      [] t \in {"/s/xyz", "/s?src="} -> <<"s">>
      [] OTHER -> <<>>

RECURSIVE SkipSlashes(_)
SkipSlashes(s) == IF s # <<>> /\ Head(s) = "/" THEN SkipSlashes(Tail(s)) ELSE s

\* the host: the tokens up to the first "/", "?" or ":"
RECURSIVE HostLabels(_)
HostLabels(s) ==
    IF s = <<>> \/ Head(s) \in PathTokens
    THEN <<>>
    ELSE IF Head(s) \in Schemes
    THEN <<SchemeName(Head(s))>>
    ELSE <<Head(s)>> \o HostLabels(Tail(s))

\* the host after http:// and https://: further slashes are skipped
SpecialHost(s) ==
    LET rest == SkipSlashes(s)
    IN  IF rest # <<>> /\ Head(rest) \in PathTokens
        THEN PathHost(Head(rest))
        ELSE HostLabels(rest)

\* new URL(s): ok is FALSE where the constructor throws a TypeError
ParseURL(s) ==
    LET input == StripUrl(s)
        at == SchemeAt(input)
        rest == SubSeq(input, at + 1, Len(input))
        special == at = 1
        host == IF special THEN SpecialHost(rest) ELSE HostLabels(rest)
    IN  IF at = 0 \/ Includes(host, " ") \/ (special /\ host = <<>>)
        THEN [ok |-> FALSE, hostname |-> <<>>]
        ELSE [ok |-> TRUE,
              hostname |-> IF special
                           THEN [i \in 1..Len(host) |-> Lower(host[i])]
                           ELSE host]

\* line 121: the hostname carries one of the two platform markers
SupportedHost(hostname) ==
    Includes(hostname, "xiaohongshu.com") \/ Includes(hostname, "weixin.qq.com")

----------------------------------------------------------------------------
(* The request body: text that is no JSON, JSON null, another JSON value   *)
(* that is no object (its url property is undefined), or an object whose   *)
(* url field is absent, null, a string or a number.                        *)

UrlValue(t, s) == [t |-> t, s |-> s]
Undefined == UrlValue("undefined", <<>>)
Body(kind, url) == [kind |-> kind, url |-> url]

\* !url of line 113 is false for a non-empty string and a non-zero number
TruthyUrl(u) ==
    \/ u.t = "string" /\ u.s # <<>>
    \/ u.t = "number" /\ u.s # <<"0">>

----------------------------------------------------------------------------
(* The fetched page: for each selector of lines 156-165 the text it        *)
(* yields ("" when the element is absent).                                 *)

Html(ogTitle, titleTag, metaAuthor, authorName, divDesc, divContent, activityName, jsName, jsContent) ==
    [ogTitle |-> ogTitle, titleTag |-> titleTag, metaAuthor |-> metaAuthor,
     authorName |-> authorName, divDesc |-> divDesc, divContent |-> divContent,
     activityName |-> activityName, jsName |-> jsName, jsContent |-> jsContent]

EmptyHtml == Html(<<>>, <<>>, <<>>, <<>>, <<>>, <<>>, <<>>, <<>>, <<>>)

PageReply(net, status, html) == [net |-> net, status |-> status, html |-> html]
NoPage == PageReply("none", 0, EmptyHtml)

\* the crawl without the test of line 145: any answer counts as the page
PageOkAnyStatus(r) == r.net = "ok"

\* response.ok (line 145) of a fetch that did not throw
PageOk(r) == r.net = "ok" /\ r.status \in 200..299

\* e.message in the catch of line 174: the error fetch threw, or the one
\* thrown at line 146
CrawlError(r) ==
    IF r.net = "error"
    THEN <<"fetch failed">>
    ELSE <<"Failed to fetch URL: ", ToString(r.status)>>

\* a || b on strings
Or(a, b) == IF TruthyStr(a) THEN a ELSE b

\* lines 129-136
InitialContent ==
    [title |-> <<>>, author |-> <<"Unknown">>, readCount |-> <<"N/A">>,
     commentCount |-> <<"N/A">>, content |-> <<>>, rawText |-> <<>>]

\* lines 152 and 161: the selector set chosen by the markers in the url
\* string ("none" when neither branch is taken)
SelectorSet(url) ==
    IF Includes(url, "xiaohongshu.com") THEN "xiaohongshu"
    ELSE IF Includes(url, "weixin.qq.com") THEN "weixin"
    ELSE "none"

\* lines 156-159 and 163-165: the fields a selector set yields
ExtractWith(set, html) ==
    IF set = "xiaohongshu"
    THEN [InitialContent EXCEPT
            !.title = Or(html.ogTitle, html.titleTag),
            !.author = Or(html.metaAuthor, Or(html.authorName, <<"Unknown">>)),
            !.rawText = Or(html.divDesc, html.divContent)]
    ELSE IF set = "weixin"
    THEN [InitialContent EXCEPT
            !.title = Or(html.ogTitle, Trim(html.activityName)),
            !.author = Or(html.metaAuthor, Or(Trim(html.jsName), <<"Unknown">>)),
            !.rawText = Trim(html.jsContent)]
    ELSE InitialContent

\* lines 152-167
ExtractFields(url, html) == ExtractWith(SelectorSet(url), html)

\* lines 169-172: rawText falls back to title
WithFallback(c) ==
    IF TruthyStr(c.rawText) THEN c ELSE [c EXCEPT !.rawText = c.title]

\* the extraction without the fallback of lines 169-172
ExtractWithoutFallback(url, html) == ExtractFields(url, html)

\* lines 152-172: extraction, then the fallback of rawText to title
Extract(url, html) == WithFallback(ExtractFields(url, html))

----------------------------------------------------------------------------
(* The response envelope                                                   *)

NoData == [null |-> TRUE]
NoResponse == [status |-> 0, code |-> 0, message |-> <<>>, hasData |-> FALSE,
               data |-> NoData]

\* c.json({ code, message, data: null }) without the status argument
ErrorResponseStatus200(status, message) ==
    [status |-> 200, code |-> status, message |-> message, hasData |-> FALSE,
     data |-> NoData]

\* c.json({ code, message, data: null }, status)
ErrorResponse(status, message) ==
    [status |-> status, code |-> status, message |-> message, hasData |-> FALSE,
     data |-> NoData]

\* lines 250-257: { ...contentData, aiResults: results }, status 200
SuccessResponse(content, res) ==
    [status |-> 200, code |-> 200, message |-> <<"Success">>, hasData |-> TRUE,
     data |-> [title |-> content.title, author |-> content.author,
               readCount |-> content.readCount,
               commentCount |-> content.commentCount,
               content |-> content.content, rawText |-> content.rawText,
               aiResults |-> res]]

\* lines 242-245
DemoEntry ==
    JsObject({"keywords", "summary"}, <<"Demo", "No API Key Configured">>,
             <<"1. Please configure API keys in Cloudflare.\n",
               "2. Supported: DeepSeek, OpenAI, Gemini, Qwen.\n",
               "3. This is a demo result.">>, <<>>)

EmptyResults == [k \in {} |-> JsNull]

\* results = { [key]: entry }: the mapping is replaced, not extended
PutReplaces(res, key, entry) == [k \in {key} |-> entry]

\* results['Demo'] = entry: every task writes under one shared key
PutUnderSharedKey(res, key, entry) ==
    [k \in DOMAIN res \cup {"Demo"} |-> IF k = "Demo" THEN entry ELSE res[k]]

\* results[key] = entry
Put(res, key, entry) ==
    [k \in DOMAIN res \cup {key} |-> IF k = key THEN entry ELSE res[k]]

\* adapters called with contentData.content in the place of rawText
TaskArgsContentField(content) == [title |-> content.title, content |-> content.content]

\* lines 203-204, 214-215, 223-224, 235-236: the title and the content an
\* adapter is called with
TaskArgs(content) == [title |-> content.title, content |-> content.rawText]
NoArgs == [title |-> <<>>, content |-> <<>>]

\* App.tsx, lines 19-23: the initial state of the component
InitialApp ==
    [url |-> <<>>, loading |-> FALSE, error |-> <<>>, hasResult |-> FALSE,
     result |-> <<>>, activeTab |-> <<>>]

\* lines 198, 209, 220, 230: the providers whose credential is truthy
Configured(e) == {p \in Providers : e[p] # <<>>}

\* Object.keys(results).length === 0 in the place of line 241
NeedsDemoByResults(dispatched, res) == DOMAIN res = {}

\* line 241: promises.length === 0, for the providers dispatched and the
\* result mapping at that point
NeedsDemo(dispatched, res) == dispatched = {}

----------------------------------------------------------------------------
(* Inputs                                                                  *)

XhsUrl == <<"https://", "www.", "xiaohongshu.com", "/explore/abc123">>
WeixinUrl == <<"https://", "mp.", "weixin.qq.com", "/s/xyz">>
OtherUrl == <<"https://", "example.com", "/">>
NotAUrl == <<"not-a-url">>
MarkerInQueryUrl == <<"https://", "example.com", "/?ref=", "xiaohongshu.com">>
BothMarkersUrl == <<"https://", "mp.", "weixin.qq.com", "/s?src=", "xiaohongshu.com">>
UpperCaseUrl == <<"https://", "WWW.", "XIAOHONGSHU.COM", "/">>
EmptyUrl == <<>>
TripleSlashUrl == <<"https://", "/", "xiaohongshu.com">>

Urls == {XhsUrl, WeixinUrl, OtherUrl, NotAUrl, MarkerInQueryUrl, BothMarkersUrl,
         UpperCaseUrl, EmptyUrl, TripleSlashUrl}

UrlBody(u) == Body("object", UrlValue("string", u))

Bodies ==
    {Body("invalid", Undefined), Body("null", Undefined),
     Body("number", Undefined), Body("object", Undefined),
     Body("object", UrlValue("null", <<>>)),
     Body("object", UrlValue("number", <<"123">>))}
    \cup {UrlBody(u) : u \in Urls}

Credentials == {<<>>, <<"sk-key">>}
Envs == [Providers -> Credentials]

XhsHtml ==
    Html(<<"Note title">>, <<>>, <<>>, <<"Alice">>, <<"Body text">>, <<>>,
         <<>>, <<>>, <<>>)
WeixinHtml ==
    Html(<<>>, <<>>, <<>>, <<>>, <<>>, <<>>,
         <<" ", "Article", " ">>, <<"Account">>, <<"\n", "Article body", "\n">>)

Htmls == {EmptyHtml, XhsHtml, WeixinHtml}

PageReplies ==
    {PageReply("error", 0, EmptyHtml), PageReply("ok", 404, EmptyHtml)}
    \cup {PageReply("ok", 200, h) : h \in Htmls}

\* the replies of the four outcomes of a provider call: a well-formed
\* reply, a malformed one, an empty list, a 401 without a list, a
\* transport error
Replies ==
    {TextReply(200, <<WellFormedA>>), TextReply(200, <<WellFormedB>>),
     TextReply(200, <<Prose>>),
     ListReply(200, "empty"), ListReply(401, "absent"), NetworkError}

----------------------------------------------------------------------------
(* The handler of POST /api/analyze, lines 108-262                         *)

Init ==
    /\ body \in Bodies
    /\ env \in Envs
    /\ pc = "recv"
    /\ page = NoPage
    /\ contentData = InitialContent
    /\ results = EmptyResults
    /\ promises = [p \in Providers |-> "none"]
    /\ taskRes = [p \in Providers |-> Pending]
    /\ reply = [p \in Providers |-> NoReply]
    /\ netCalls = {}
    /\ writes = [k \in Providers \cup {"Demo"} |-> 0]
    /\ response = NoResponse
    /\ taskArgs = [p \in Providers |-> NoArgs]
    /\ app = InitialApp
    /\ appPc = "idle"
    /\ answered = 0

\* the handler returns c.json(...)
Send(r) ==
    /\ response' = r
    /\ pc' = "sent"

\* the validation without the hostname test of line 121
ValidateAnyHost(b) ==
    IF b.kind = "invalid"
    THEN ErrorResponse(500, <<"Unexpected token in JSON">>)
    ELSE IF b.kind = "null"
    THEN ErrorResponse(500, <<"Cannot read properties of null (reading 'url')">>)
    ELSE IF ~TruthyUrl(b.url)
    THEN ErrorResponse(400, <<"URL is required">>)
    ELSE IF ~ParseURL(b.url.s).ok
    THEN ErrorResponse(400, <<"Invalid URL format">>)
    ELSE NoResponse

\* lines 110-126: what the handler answers before any outbound call, or
\* NoResponse when the request passes validation
Validate(b) ==
    IF b.kind = "invalid"
    THEN ErrorResponse(500, <<"Unexpected token in JSON">>)
    ELSE IF b.kind = "null"
    THEN ErrorResponse(500, <<"Cannot read properties of null (reading 'url')">>)
    ELSE IF ~TruthyUrl(b.url)
    THEN ErrorResponse(400, <<"URL is required">>)
    ELSE IF ~ParseURL(b.url.s).ok
    THEN ErrorResponse(400, <<"Invalid URL format">>)
    ELSE IF ~SupportedHost(ParseURL(b.url.s).hostname)
    THEN ErrorResponse(400,
            <<"Only Xiaohongshu and WeChat Official Account links are supported">>)
    ELSE NoResponse

\* lines 110-143: the body is read and validated; a request that passes
\* issues the fetch of the page
ReceiveBody ==
    /\ pc = "recv"
    /\ IF Validate(body) # NoResponse
       THEN /\ Send(Validate(body))
            /\ UNCHANGED netCalls
       ELSE /\ pc' = "crawl"
            /\ netCalls' = netCalls \cup {"page"}
            /\ UNCHANGED response
    /\ UNCHANGED <<body, env, page, contentData, results, promises, taskRes,
                   reply, writes, taskArgs>>
    /\ UNCHANGED feVars

\* lines 139-177: the fetch of the page throws or answers a status that is
\* not ok
CrawlFail(r) ==
    /\ pc = "crawl"
    /\ ~PageOk(r)
    /\ page' = r
    /\ Send(ErrorResponse(500, <<"Failed to crawl content: ">> \o CrawlError(r)))
    /\ UNCHANGED <<body, env, contentData, results, promises, taskRes, reply,
                   netCalls, writes, taskArgs>>
    /\ UNCHANGED feVars

\* lines 149-248 with at least one credential: extraction, then one adapter
\* call per configured provider, then the handler awaits Promise.all
CrawlDispatch(r) ==
    /\ pc = "crawl"
    /\ PageOk(r)
    /\ ~NeedsDemo(Configured(env), results)
    /\ page' = r
    /\ contentData' = Extract(body.url.s, r.html)
    /\ promises' = [p \in Providers |->
                      IF p \in Configured(env) THEN "pending" ELSE "none"]
    /\ netCalls' = netCalls \cup Configured(env)
    /\ taskArgs' = [p \in Providers |->
                      IF p \in Configured(env) THEN TaskArgs(contentData')
                      ELSE taskArgs[p]]
    /\ pc' = "join"
    /\ UNCHANGED <<body, env, results, taskRes, reply, writes, response>>
    /\ UNCHANGED feVars

\* lines 149-257 without a credential: extraction, the (empty) dispatch, the
\* Demo entry, and the response, with no await in between
CrawlDemo(r) ==
    /\ pc = "crawl"
    /\ PageOk(r)
    /\ NeedsDemo(Configured(env), results)
    /\ page' = r
    /\ contentData' = Extract(body.url.s, r.html)
    /\ promises' = [p \in Providers |->
                      IF p \in Configured(env) THEN "pending" ELSE "none"]
    /\ netCalls' = netCalls \cup Configured(env)
    /\ results' = Put(results, "Demo", DemoEntry)
    /\ writes' = [writes EXCEPT !["Demo"] = @ + 1]
    /\ taskArgs' = [p \in Providers |->
                      IF p \in Configured(env) THEN TaskArgs(contentData')
                      ELSE taskArgs[p]]
    /\ Send(SuccessResponse(contentData', results'))
    /\ UNCHANGED <<body, env, taskRes, reply>>
    /\ UNCHANGED feVars

\* the outbound call of the adapter of p ends in reply r, and the adapter
\* promise settles (lines 28-65, 74-105)
AdapterSettle(p, r) ==
    /\ promises[p] = "pending"
    /\ taskRes[p].settled = "pending"
    /\ taskRes' = [taskRes EXCEPT ![p] = Adapter(p, r)]
    /\ reply' = [reply EXCEPT ![p] = r]
    /\ UNCHANGED <<body, env, pc, page, contentData, results, promises,
                   netCalls, writes, response, taskArgs>>
    /\ UNCHANGED feVars

\* runAnalysis of p resumes after `await task` and writes its entry
\* (lines 186-194)
RunAnalysisResume(p) ==
    /\ promises[p] = "pending"
    /\ taskRes[p].settled # "pending"
    /\ LET run == RunAnalysis(taskRes[p])
       IN  /\ results' = IF run.write THEN Put(results, p, run.entry) ELSE results
           /\ writes' = IF run.write THEN [writes EXCEPT ![p] = @ + 1] ELSE writes
           /\ promises' = [promises EXCEPT ![p] = run.settled]
    /\ UNCHANGED <<body, env, pc, page, contentData, taskRes, reply, netCalls,
                   response, taskArgs>>
    /\ UNCHANGED feVars

\* lines 247-261: Promise.all settles and the handler answers
Respond ==
    /\ pc = "join"
    /\ LET all == PromiseAll({promises[p] : p \in Configured(env)})
       IN  /\ all # "pending"
           /\ IF all = "fulfilled"
              THEN Send(SuccessResponse(contentData, results))
              ELSE Send(ErrorResponse(500, <<"No data returned">>))  \* line 260
    /\ UNCHANGED <<body, env, page, contentData, results, promises, taskRes,
                   reply, netCalls, writes, taskArgs>>
    /\ UNCHANGED feVars

Next ==
    \/ ReceiveBody
    \/ \E r \in PageReplies : CrawlFail(r)
    \/ \E r \in PageReplies : CrawlDispatch(r)
    \/ \E r \in PageReplies : CrawlDemo(r)
    \/ \E p \in Providers, r \in Replies : AdapterSettle(p, r)
    \/ \E p \in Providers : RunAnalysisResume(p)
    \/ Respond

Spec == Init /\ [][Next]_vars

----------------------------------------------------------------------------
(* Properties of the orchestrator                                          *)

Dispatched == netCalls \cap Providers
Sent == pc = "sent"
Sent200 == pc = "sent" /\ response.status = 200
AiResults == response.data.aiResults

\* the two variants of an entry
IsSuccess(e) ==
    e.kind = "object" /\ {"keywords", "summary"} \subseteq e.has /\ "error" \notin e.has
IsFailure(e) ==
    e.kind = "object" /\ "error" \in e.has /\ e.has \cap {"keywords", "summary"} = {}

\* a reply with status 200 whose text is a {keywords, summary} object
WellFormedReply(r) ==
    /\ r.net = "ok" /\ r.status = 200 /\ r.list = "one" /\ r.first = "content"
    /\ r.text \in {<<WellFormedA>>, <<WellFormedB>>}

\* C1: whenever a response carries a result mapping and at least one
\* credential is present, the keys of aiResults are exactly the names of the
\* providers whose credential is present, whatever each call ended in.
TotalCoverage ==
    (Sent /\ response.hasData /\ Configured(env) # {}) =>
        /\ DOMAIN AiResults = Configured(env)
        /\ Cardinality(DOMAIN AiResults) = Cardinality(Configured(env))

\* all four providers configured, each call with another outcome
TotalCoverageWitness ==
    /\ Sent200
    /\ Configured(env) = Providers
    /\ reply["DeepSeek"] = NetworkError
    /\ reply["OpenAI"] = TextReply(200, <<Prose>>)
    /\ reply["Gemini"] = ListReply(200, "empty")
    /\ reply["Qwen"] = TextReply(200, <<WellFormedA>>)
    /\ Cardinality(DOMAIN AiResults) = 4

\* C2: a 200 response of a request that dispatched providers is sent only
\* when the promise of every dispatched provider is fulfilled and its entry
\* is in the mapping sent.
WaitForAll ==
    (Sent200 /\ Dispatched # {}) =>
        \A p \in Dispatched :
            /\ promises[p] = "fulfilled"
            /\ writes[p] >= 1
            /\ p \in DOMAIN AiResults

WaitForAllWitness ==
    /\ Sent200
    /\ Dispatched = {"DeepSeek", "Gemini", "Qwen"}
    /\ \A p \in Dispatched : promises[p] = "fulfilled" /\ p \in DOMAIN AiResults

\* C3: when one configured provider ends in a transport error and every
\* other one replies well-formed, the response is 200, the entry of the
\* failed provider is a Failure, and the entry of every other provider is
\* the Success value decoded from its own reply.
FailureIsolation ==
    Sent =>
        \A p \in Configured(env) :
            (/\ reply[p] = NetworkError
             /\ \A q \in Configured(env) \ {p} : WellFormedReply(reply[q]))
            => /\ response.status = 200
               /\ p \in DOMAIN AiResults
               /\ IsFailure(AiResults[p])
               /\ \A q \in Configured(env) \ {p} :
                    /\ q \in DOMAIN AiResults
                    /\ IsSuccess(AiResults[q])
                    /\ AiResults[q] = AtomValue(reply[q].text[1])

FailureIsolationWitness ==
    /\ Sent200
    /\ Configured(env) = Providers
    /\ reply["OpenAI"] = NetworkError
    /\ reply["DeepSeek"] = TextReply(200, <<WellFormedA>>)
    /\ reply["Gemini"] = TextReply(200, <<WellFormedB>>)
    /\ reply["Qwen"] = TextReply(200, <<WellFormedA>>)
    /\ IsFailure(AiResults["OpenAI"])
    /\ AiResults["Gemini"] = AtomValue(WellFormedB)

\* C4: once the request passed validation and the page was fetched, the
\* response is HTTP 200 with code 200, whatever the provider calls ended in.
ProviderFailureNeverEscalates ==
    (Sent /\ PageOk(page)) =>
        /\ response.status = 200
        /\ response.code = 200
        /\ response.hasData

\* every dispatched provider failed
ProviderFailureNeverEscalatesWitness ==
    /\ Sent200
    /\ Configured(env) = Providers
    /\ reply["DeepSeek"] = NetworkError
    /\ reply["OpenAI"] = ListReply(401, "absent")
    /\ reply["Gemini"] = NetworkError
    /\ reply["Qwen"] = ListReply(200, "empty")
    /\ \A p \in Providers : IsFailure(AiResults[p])

\* C8: in a 200 response without any credential no adapter call was made
\* and aiResults is exactly the Demo entry; the Demo key is in aiResults
\* only without any credential; aiResults is never empty.
DemoOnlyWithoutCredentials ==
    Sent200 =>
        /\ Configured(env) = {} =>
              /\ Dispatched = {}
              /\ DOMAIN AiResults = {"Demo"}
              /\ AiResults["Demo"] = DemoEntry
        /\ "Demo" \in DOMAIN AiResults => Configured(env) = {}
        /\ DOMAIN AiResults # {}

DemoOnlyWithoutCredentialsWitness ==
    /\ Sent200
    /\ Configured(env) = {}
    /\ body = UrlBody(XhsUrl)
    /\ DOMAIN AiResults = {"Demo"}
    /\ response.data.author = <<"Unknown">>

----------------------------------------------------------------------------
(* Properties of the validation                                            *)

UrlString(b) == b.kind = "object" /\ b.url.t = "string"

Rejected400(message) ==
    /\ response.status = 400
    /\ response.code = 400
    /\ response.message = message
    /\ ~response.hasData

\* C9 as stated: every url string that does not parse as an absolute URL is
\* answered 400 'Invalid URL format', every parsed URL whose hostname has
\* neither marker is answered 400 'Only ... links are supported', and no
\* outbound call was made for either.
RejectedBeforeAnyCall ==
    (Sent /\ UrlString(body)) =>
        /\ ~ParseURL(body.url.s).ok =>
              Rejected400(<<"Invalid URL format">>) /\ netCalls = {}
        /\ (ParseURL(body.url.s).ok /\ ~SupportedHost(ParseURL(body.url.s).hostname)) =>
              /\ Rejected400(
                   <<"Only Xiaohongshu and WeChat Official Account links are supported">>)
              /\ netCalls = {}

\* C9 as amended: the same for every non-empty url string; the empty string
\* is answered 400 'URL is required', also before any outbound call.
NonEmptyRejectedBeforeAnyCall ==
    (Sent /\ UrlString(body)) =>
        /\ (body.url.s # <<>> /\ ~ParseURL(body.url.s).ok) =>
              Rejected400(<<"Invalid URL format">>) /\ netCalls = {}
        /\ body.url.s = <<>> =>
              Rejected400(<<"URL is required">>) /\ netCalls = {}
        /\ (ParseURL(body.url.s).ok /\ ~SupportedHost(ParseURL(body.url.s).hostname)) =>
              /\ Rejected400(
                   <<"Only Xiaohongshu and WeChat Official Account links are supported">>)
              /\ netCalls = {}

\* a URL whose query, but not whose hostname, carries a marker is rejected
NonEmptyRejectedBeforeAnyCallWitness ==
    /\ Sent
    /\ body = UrlBody(MarkerInQueryUrl)
    /\ Rejected400(<<"Only Xiaohongshu and WeChat Official Account links are supported">>)
    /\ netCalls = {}

\* a request that gives no url
NoUrlGiven(b) ==
    \/ b.kind # "object"
    \/ b.url.t \in {"undefined", "null"}
    \/ b.url.t = "string" /\ b.url.s = <<>>

\* C10: every request that gives no url, whatever the shape of its body, is
\* answered 400 'URL is required' with data null, and no outbound call is
\* made.
MissingUrlIsInputError ==
    (Sent /\ NoUrlGiven(body)) =>
        /\ Rejected400(<<"URL is required">>)
        /\ netCalls = {}

----------------------------------------------------------------------------
(* The adapters on every reply: a request that passes validation, with at  *)
(* most MaxConfigured credentials, and each provider call ending in any    *)
(* reply of the catalogue below.                                           *)

MaxConfigured == 1

Statuses == {200, 401}

Texts ==
    {<<a>> : a \in JsonAtoms \cup {Prose}}
    \cup {<<>>,
          <<FenceJson, "\n", WellFormedA, "\n", Fence>>,
          <<FenceJson, "\n", Prose, "\n", Fence>>,
          <<FenceJson, NullAtom, Fence>>,
          <<" ", Prose, "\n">>,
          <<"\n", WellFormedB, " ">>}

AllReplies ==
    {NetworkError}
    \cup {BodyReply(st, k) : st \in Statuses, k \in {"notjson", "null"}}
    \cup {ListReply(st, l) : st \in Statuses, l \in {"absent", "empty"}}
    \cup {NoContentReply(st) : st \in Statuses}
    \cup {UndefinedContentReply(st) : st \in Statuses}
    \cup {TextReply(st, t) : st \in Statuses, t \in Texts}

InitAdapter ==
    /\ Init
    /\ body \in {UrlBody(XhsUrl), UrlBody(WeixinUrl)}
    /\ Cardinality(Configured(env)) \in 1..MaxConfigured

NextAdapter ==
    \/ ReceiveBody
    \/ \E h \in {XhsHtml, WeixinHtml} : CrawlDispatch(PageReply("ok", 200, h))
    \/ \E p \in Providers, r \in AllReplies : AdapterSettle(p, r)
    \/ \E p \in Providers : RunAnalysisResume(p)
    \/ Respond

SpecAdapter == InitAdapter /\ [][NextAdapter]_vars

\* the call of p ended in a transport failure or without a usable list
FailedCall(r) ==
    \/ r.net = "error"
    \/ r.net = "ok" /\ r.status \notin 200..299
    \/ r.net = "ok" /\ r.list \in {"absent", "empty"}

\* C5: the entry of a provider whose call ended in a network error, in a
\* status that is not 2xx, or in a reply without a first choice / candidate
\* is a Failure, whatever the body of the reply holds.
FailedCallIsFailure ==
    Sent200 =>
        \A p \in Dispatched : FailedCall(reply[p]) => IsFailure(AiResults[p])

\* the reply carries a first choice / candidate with a text
HasText(r) == r.net = "ok" /\ r.list = "one" /\ r.first = "content"

\* C6 as stated: a text that does not decode as JSON becomes the degraded
\* Success whose summary is the text of the provider, never a Failure.
UndecodableTextIsDegradedSuccess ==
    Sent200 =>
        \A p \in Dispatched :
            (HasText(reply[p]) /\ ~JSONParse(reply[p].text).ok) =>
                /\ AiResults[p] = Degraded(reply[p].text)
                /\ ~IsFailure(AiResults[p])

\* the text an adapter decodes: the text of the reply, for Gemini after the
\* fence markers are removed and the rest is trimmed
Payload(p, r) == IF p = "Gemini" THEN CleanFences(r.text) ELSE r.text

\* C6 as amended: when the text the adapter decodes (for Gemini the text
\* without fence markers, trimmed) is no JSON, the entry is the degraded
\* Success whose summary is that text, never a Failure; a network error is
\* always a Failure.
UndecodablePayloadIsDegradedSuccess ==
    Sent200 =>
        \A p \in Dispatched :
            /\ (HasText(reply[p]) /\ ~JSONParse(Payload(p, reply[p])).ok) =>
                  /\ AiResults[p] = Degraded(Payload(p, reply[p]))
                  /\ IsSuccess(AiResults[p])
                  /\ ~IsFailure(AiResults[p])
            /\ reply[p].net = "error" =>
                  IsFailure(AiResults[p]) /\ ~IsSuccess(AiResults[p])

\* Gemini answers prose inside fence markers: the summary is the prose
UndecodablePayloadIsDegradedSuccessWitness ==
    /\ Sent200
    /\ Dispatched = {"Gemini"}
    /\ reply["Gemini"] = TextReply(200, <<FenceJson, "\n", Prose, "\n", Fence>>)
    /\ AiResults["Gemini"].summary = <<Prose>>
    /\ AiResults["Gemini"].keywords = <<>>

\* C7: every entry of aiResults in a 200 response is exactly one of the two
\* variants, a Success with keywords and summary or a Failure with error.
EntryIsOneVariant ==
    Sent200 =>
        \A k \in DOMAIN AiResults :
            /\ IsSuccess(AiResults[k]) \/ IsFailure(AiResults[k])
            /\ ~(IsSuccess(AiResults[k]) /\ IsFailure(AiResults[k]))

----------------------------------------------------------------------------
(* Properties of the crawl and of the envelope                             *)

\* the fetch of the page threw, or answered a status outside 200..299
PageFailed(r) == r.net = "error" \/ (r.net = "ok" /\ ~(r.status \in 200..299))

\* C11: when the fetch of the page fails, the request is answered 500 with
\* data null, the content record is the one of before extraction, no
\* adapter was called and nothing was written to the result mapping.
CrawlFailureAborts ==
    PageFailed(page) =>
        /\ Sent
        /\ response.status = 500
        /\ response.code = 500
        /\ ~response.hasData
        /\ contentData = InitialContent
        /\ Dispatched = {}
        /\ \A p \in Providers : promises[p] = "none" /\ taskArgs[p] = NoArgs
        /\ results = EmptyResults

\* the page answers 404 while all four credentials are present
CrawlFailureAbortsWitness ==
    /\ page = PageReply("ok", 404, EmptyHtml)
    /\ Configured(env) = Providers
    /\ body = UrlBody(WeixinUrl)
    /\ response.status = 500
    /\ netCalls = {"page"}

----------------------------------------------------------------------------
(* The extraction on every page: an accepted url, no credential, and a     *)
(* page in which each selector yields nothing, white space only, or a      *)
(* text of its own with white space around it.                             *)

AcceptedUrls == {XhsUrl, WeixinUrl, BothMarkersUrl, UpperCaseUrl}

SelectorTexts(label) == {<<>>, <<" ">>, <<" ", label, "\n">>}

AllHtmls ==
    {Html(a, b, c, d, e, f, g, h, i) :
        a \in SelectorTexts("og:title"), b \in SelectorTexts("title"),
        c \in SelectorTexts("meta author"), d \in SelectorTexts(".author-name"),
        e \in SelectorTexts("div.desc"), f \in SelectorTexts("div.content"),
        g \in SelectorTexts("#activity-name"), h \in SelectorTexts("#js_name"),
        i \in SelectorTexts("#js_content")}

InitExtract ==
    /\ Init
    /\ body \in {UrlBody(u) : u \in AcceptedUrls}
    /\ Configured(env) = {}

\* the fetch of the page answers 200 with any page of the catalogue
CrawlAnyPage ==
    /\ pc = "crawl"
    /\ \E h \in AllHtmls : CrawlDemo(PageReply("ok", 200, h))

NextExtract ==
    \/ ReceiveBody
    \/ CrawlAnyPage

SpecExtract == InitExtract /\ [][NextExtract]_vars

Extracted == pc \in {"join", "sent"} /\ page.net = "ok" /\ page.status = 200

\* C12: after extraction the content record has title, author and rawText
\* set; author is never empty and is 'Unknown' when no author markup yields
\* text; rawText is non-empty whenever title is, and is the title when no
\* body selector yields text.
ExtractionTotal ==
    Extracted =>
        /\ {"title", "author", "rawText"} \subseteq DOMAIN contentData
        /\ contentData.author # <<>>
        /\ (contentData.title # <<>>) => (contentData.rawText # <<>>)
        /\ (/\ page.html.metaAuthor = <<>>
            /\ page.html.authorName = <<>>
            /\ Trim(page.html.jsName) = <<>>) => contentData.author = <<"Unknown">>
        /\ (/\ page.html.divDesc = <<>>
            /\ page.html.divContent = <<>>
            /\ Trim(page.html.jsContent) = <<>>) => contentData.rawText = contentData.title

\* a WeChat page with a heading, whose body container holds white space only
ExtractionTotalWitness ==
    /\ Extracted
    /\ body = UrlBody(WeixinUrl)
    /\ page.html.ogTitle = <<>>
    /\ page.html.jsContent = <<" ">>
    /\ contentData.title = <<"#activity-name">>
    /\ contentData.rawText = <<"#activity-name">>
    /\ contentData.author = <<"Unknown">>

----------------------------------------------------------------------------
(* The fields of the 200 response and the platform of the extraction       *)

\* C13: the data of every 200 response has the fields title, author,
\* readCount, commentCount and aiResults and no other field.
DataHasFiveFields ==
    Sent200 =>
        DOMAIN response.data = {"title", "author", "readCount", "commentCount", "aiResults"}

\* the platforms whose marker line 121 finds in the hostname
HostPlatforms(hostname) ==
    {pl \in {"xiaohongshu", "weixin"} :
        \/ pl = "xiaohongshu" /\ Includes(hostname, "xiaohongshu.com")
        \/ pl = "weixin" /\ Includes(hostname, "weixin.qq.com")}

\* C14: for every accepted url the selector set applied to the page is the
\* one of a platform whose marker is in the hostname, and the content
\* record is what that set extracts.
ExtractionAgreesWithValidation ==
    Extracted =>
        \E pl \in HostPlatforms(ParseURL(body.url.s).hostname) :
            /\ SelectorSet(body.url.s) = pl
            /\ contentData = WithFallback(ExtractWith(pl, page.html))

----------------------------------------------------------------------------
(* The result mapping and the content record under the provider tasks      *)

Keys == Providers \cup {"Demo"}

\* a step writes key k: k is new in the mapping, or its entry changes
Written(k) ==
    /\ k \in DOMAIN results'
    /\ k \in DOMAIN results => results'[k] # results[k]

\* a step in which the task of provider p resumes and its promise settles
TaskStep(p) ==
    /\ promises[p] = "pending"
    /\ taskRes[p].settled # "pending"
    /\ promises'[p] # "pending"
    /\ \A q \in Providers \ {p} : promises'[q] = promises[q]

\* C15: each key of the result mapping is written exactly once; the key of
\* a provider is written in a step of the task of that provider and of no
\* other task, and no step changes or removes an entry that is there.
SingleWriterPerKey ==
    /\ [](\A k \in Keys : writes[k] = IF k \in DOMAIN results THEN 1 ELSE 0)
    /\ [](DOMAIN results \subseteq Keys)
    /\ [][/\ \A p \in Providers : Written(p) => TaskStep(p)
          /\ \A k \in DOMAIN results :
                k \in DOMAIN results' /\ results'[k] = results[k]]_vars

\* all four tasks have written, each with an outcome of its own
SingleWriterPerKeyWitness ==
    /\ Sent200
    /\ DOMAIN results = Providers
    /\ \A p \in Providers : writes[p] = 1
    /\ IsSuccess(results["DeepSeek"])
    /\ IsFailure(results["OpenAI"])
    /\ IsFailure(results["Gemini"])
    /\ IsSuccess(results["Qwen"])

\* C16: every adapter dispatched was called with the title and the rawText
\* of the content record; from the dispatch on no step changes the record,
\* and the 200 response carries the values the extraction produced.
ContentReadOnly ==
    /\ [](\A p \in Dispatched :
            /\ taskArgs[p].title = contentData.title
            /\ taskArgs[p].content = contentData.rawText)
    /\ [][(pc \in {"join", "sent"}) => (contentData' = contentData)]_vars
    /\ [](Sent200 =>
            /\ contentData = Extract(body.url.s, page.html)
            /\ \A fld \in {"title", "author", "readCount", "commentCount"} :
                  response.data[fld] = contentData[fld])

\* three adapters were called with the text of the page, and failed or
\* succeeded, and the response carries the title of the page
ContentReadOnlyWitness ==
    /\ Sent200
    /\ page.html = XhsHtml
    /\ body = UrlBody(XhsUrl)
    /\ Dispatched = {"DeepSeek", "Gemini", "Qwen"}
    /\ \A p \in Dispatched : taskArgs[p] = [title |-> <<"Note title">>, content |-> <<"Body text">>]
    /\ IsFailure(results["Gemini"])
    /\ response.data.title = <<"Note title">>
    /\ response.data.author = <<"Alice">>

\* C18: in every response the code of the body is the HTTP status, which is
\* 200, 400 or 500, and data is null exactly when the status is not 200.
EnvelopeConsistent ==
    Sent =>
        /\ response.code = response.status
        /\ response.status \in {200, 400, 500}
        /\ (response.data = NoData) <=> (response.status # 200)
        /\ response.hasData <=> (response.status = 200)

\* a body that is not JSON is answered by the outer catch
EnvelopeConsistentWitness ==
    /\ Sent
    /\ body.kind = "invalid"
    /\ response.status = 500
    /\ response.code = 500
    /\ response.data = NoData
    /\ netCalls = {}

----------------------------------------------------------------------------
(* Termination: the handler under a runtime that resumes every            *)
(* continuation that is ready, with a page fetch and provider calls that   *)
(* all complete.                                                           *)

Fairness ==
    /\ WF_vars(ReceiveBody)
    /\ WF_vars(\E r \in PageReplies : CrawlFail(r) \/ CrawlDispatch(r) \/ CrawlDemo(r))
    /\ \A p \in Providers : WF_vars(\E r \in Replies : AdapterSettle(p, r))
    /\ \A p \in Providers : WF_vars(RunAnalysisResume(p))
    /\ WF_vars(Respond)

\* one request of each kind: accepted, rejected by the validation, and
\* answered by the outer catch
LiveBodies == {UrlBody(XhsUrl), UrlBody(OtherUrl), Body("invalid", Undefined)}

InitLive == Init /\ body \in LiveBodies

SpecLive == InitLive /\ [][Next]_vars /\ Fairness

\* the call of provider p has not completed
Outstanding(p) == p \in Dispatched /\ reply[p] = NoReply

\* C17: when the page fetch and every provider call complete, a response
\* is eventually sent, and once sent it is never replaced; as long as the
\* call of one dispatched provider has not completed no response is sent.
Termination ==
    /\ <>Sent
    /\ [][Sent => (Sent' /\ response' = response)]_vars
    /\ [](\A p \in Providers : Outstanding(p) => ~Sent)

\* three providers have completed and written, the fourth call is still
\* outstanding, and the handler cannot answer
TerminationWitness ==
    /\ pc = "join"
    /\ Dispatched = Providers
    /\ Outstanding("Qwen")
    /\ \A p \in Providers \ {"Qwen"} : promises[p] = "fulfilled"
    /\ ~ENABLED Respond
    /\ ~ENABLED (\E p \in Providers : RunAnalysisResume(p))

----------------------------------------------------------------------------
(* The frontend (frontend/src/App.tsx): the App component submits the url  *)
(* of its input to POST /api/analyze and shows the error or the result.    *)
(* A state value of null is <<>> for error and NoData for result.          *)

\* validateUrl without the test of the hostname
ValidateUrlAnyHost(input) == ParseURL(input).ok

\* validateUrl, lines 25-33
ValidateUrl(input) ==
    LET urlObj == ParseURL(input)
    IN  IF ~urlObj.ok
        THEN FALSE
        ELSE \/ Includes(urlObj.hostname, "xiaohongshu.com")
             \/ Includes(urlObj.hostname, "weixin.qq.com")

\* the messages of lines 38, 59 and 69, in English
InvalidLinkMessage == <<"Please enter a valid Xiaohongshu or WeChat Official Account link">>
AnalysisFailedMessage == <<"Analysis failed">>
RequestErrorMessage == <<"Request failed, please try again later">>

\* err.message of a fetch that rejects
FailedToFetch == <<"Failed to fetch">>

\* a || b on strings
Or2(a, b) == IF TruthyStr(a) THEN a ELSE b

\* the body of a handler that serves no request
NoRequest == Body("object", Undefined)

\* the deployments of the frontend specification: the credentials of
\* DeepSeek and Gemini, each present or not
FrontendEnvs == {e \in Envs : Configured(e) \subseteq {"DeepSeek", "Gemini"}}

\* the state of one invocation of the handler at position at with body b
Invocation(at, b) ==
    /\ body' = b
    /\ pc' = at
    /\ page' = NoPage
    /\ contentData' = InitialContent
    /\ results' = EmptyResults
    /\ promises' = [p \in Providers |-> "none"]
    /\ taskRes' = [p \in Providers |-> Pending]
    /\ reply' = [p \in Providers |-> NoReply]
    /\ netCalls' = {}
    /\ writes' = [k \in Providers \cup {"Demo"} |-> 0]
    /\ response' = NoResponse
    /\ taskArgs' = [p \in Providers |-> NoArgs]
    /\ UNCHANGED env

beVars == <<body, env, pc, page, contentData, results, promises, taskRes, reply,
            netCalls, writes, response, taskArgs>>

InitFrontend ==
    /\ body = NoRequest
    /\ env \in FrontendEnvs
    /\ pc = "idle"
    /\ page = NoPage
    /\ contentData = InitialContent
    /\ results = EmptyResults
    /\ promises = [p \in Providers |-> "none"]
    /\ taskRes = [p \in Providers |-> Pending]
    /\ reply = [p \in Providers |-> NoReply]
    /\ netCalls = {}
    /\ writes = [k \in Providers \cup {"Demo"} |-> 0]
    /\ response = NoResponse
    /\ taskArgs = [p \in Providers |-> NoArgs]
    /\ app = InitialApp
    /\ appPc = "idle"
    /\ answered = 0

\* line 98: onChange of the input
SetUrl(u) ==
    /\ u # app.url
    /\ app' = [app EXCEPT !.url = u]
    /\ UNCHANGED <<appPc, answered>>
    /\ UNCHANGED beVars

\* lines 164 and 177: a tab of the result card is selected; the card and
\* its tabs, one per key of aiResults, are rendered while result is set
SetActiveTab(provider) ==
    /\ app.hasResult
    /\ provider \in DOMAIN app.result.aiResults
    /\ app' = [app EXCEPT !.activeTab = <<provider>>]
    /\ UNCHANGED <<appPc, answered>>
    /\ UNCHANGED beVars

\* handleSubmit up to the fetch, lines 35-53; the button is disabled while
\* loading (line 104)
HandleSubmit ==
    /\ appPc = "idle"
    /\ ~app.loading
    /\ IF ~ValidateUrl(app.url)
       THEN /\ app' = [app EXCEPT !.error = InvalidLinkMessage]
            /\ UNCHANGED <<appPc, answered>>
            /\ UNCHANGED beVars
       ELSE /\ app' = [app EXCEPT !.loading = TRUE, !.error = <<>>,
                                  !.hasResult = FALSE, !.result = NoData,
                                  !.activeTab = <<>>]
            /\ appPc' = "waiting"
            /\ Invocation("recv", UrlBody(app.url))
            /\ UNCHANGED answered

\* lines 55-72: the response of the backend has arrived.  The tab set is
\* the first key of aiResults, the key written first; the mapping keeps no
\* order of its writes, so it is any of its keys
FetchSettle ==
    /\ appPc = "waiting"
    /\ pc = "sent"
    /\ answered' = response.status
    /\ IF response.status \in 200..299
       THEN \E k \in DOMAIN response.data.aiResults :
                app' = [app EXCEPT !.hasResult = TRUE, !.result = response.data,
                                   !.activeTab = <<k>>, !.loading = FALSE]
       ELSE app' = [app EXCEPT !.error = Or2(response.message, AnalysisFailedMessage),
                               !.loading = FALSE]
    /\ appPc' = "idle"
    /\ Invocation("idle", NoRequest)

\* lines 47, 68-72: the fetch rejects
FetchFail ==
    /\ appPc = "waiting"
    /\ answered' = 0
    /\ app' = [app EXCEPT !.error = Or2(FailedToFetch, RequestErrorMessage),
                          !.loading = FALSE]
    /\ appPc' = "idle"
    /\ Invocation("idle", NoRequest)

NextFrontend ==
    \/ \E u \in Urls : SetUrl(u)
    \/ \E provider \in Providers : SetActiveTab(provider)
    \/ HandleSubmit
    \/ FetchSettle
    \/ FetchFail
    \/ Next

SpecFrontend == InitFrontend /\ [][NextFrontend]_vars

\* no submit is in progress
Finished == appPc = "idle"

\* C19: once the last submit has finished, loading is false and the error
\* and the result are not both set.
ErrorAndResultExclusive ==
    Finished =>
        /\ ~app.loading
        /\ ~(app.error # <<>> /\ app.hasResult)

\* strings outside the catalogue of requests: slashes before the host, a
\* path part in the place of the host, no host at all, a scheme that is not
\* http or https, spaces around the url and inside the host
OddUrls ==
    {<<"https://", "/explore/abc123">>,
     <<"http://", "/s?src=", "xiaohongshu.com">>,
     <<"https://", "/?ref=", "xiaohongshu.com">>,
     <<"https://", "/">>,
     <<"https://">>,
     <<"https://", "/", "/", "WWW.", "XIAOHONGSHU.COM", "/">>,
     <<"www.", "https://">>,
     <<"example.com", "https://", "xiaohongshu.com", "/s/xyz">>,
     <<"example.com", "https://", "XIAOHONGSHU.COM">>,
     <<" ", "https://", "mp.", "weixin.qq.com", "\n">>,
     <<"https://", " ", "xiaohongshu.com">>,
     <<" ">>}

\* C20: validateUrl accepts a string exactly when the validation of the
\* backend does not answer 400 for a body with that string as url, and no
\* request the frontend sent is answered 400.
ValidationAgrees ==
    /\ \A u \in Urls \cup OddUrls :
          ValidateUrl(u) <=> (Validate(UrlBody(u)).status # 400)
    /\ appPc = "waiting" => (ValidateUrl(body.url.s) /\ response.status # 400)
    /\ answered # 400

\* the frontend sent a url with an upper-case host, and the backend
\* answered 200
ValidationAgreesWitness ==
    /\ appPc = "waiting"
    /\ body = UrlBody(UpperCaseUrl)
    /\ Sent200
    /\ app.loading

====
